---- MODULE Spec2Model ----
(***************************************************************************)
(* Orchestration core of telegram_monitor: the Monitor (start/run/stop),   *)
(* its ingestion callback, the pending deque, the three job loops, the     *)
(* message filter and the daily report, as they run on one asyncio loop.   *)
(*                                                                         *)
(* Scheduling.  `cur` names the coroutine that holds the event loop.  A    *)
(* coroutine keeps the loop until it reaches an await that suspends        *)
(* (asyncio.sleep, asyncio.to_thread, awaiting an unfinished task, network *)
(* I/O of the client); only then may another coroutine take a step.        *)
(* Calls offloaded with asyncio.to_thread run in a worker thread: their    *)
(* completion is a separate action that needs no loop.                     *)
(***************************************************************************)
EXTENDS Integers, Sequences, FiniteSets, TLC

(* ------------------------------ bounds --------------------------------- *)
\* capacity of the pending deque; the program uses 200 (monitor.py:66)
QueueMaxLen == 2
\* number of inbound events delivered in FlowSpec
MaxMsgs == 3
\* number of inbound events delivered in Spec
MaxServed == 1
\* longest item list an analysis result carries
MaxItems == 2
\* most rows the storage query of a daily report returns
MaxDaily == 1
\* by how much the long texts given to the filter exceed the minimum length
LongBy == 30

(* ------------------------- program constants --------------------------- *)
IMPACT_THRESHOLD == 4
MinLength == 10
MaxUrlCount == 3

Jobs == {"batch", "digest", "trend"}

(* ------------------------------ helpers -------------------------------- *)
RECURSIVE FlattenKeywords(_)
\* the (keyword, category) pairs of one tier of a ruleset file, in file order
FlattenKeywords(cats) ==
    IF cats = <<>> THEN <<>>
    ELSE [i \in 1..Len(Head(cats).kws) |->
              [kw |-> Head(cats).kws[i], cat |-> Head(cats).cat]]
         \o FlattenKeywords(Tail(cats))

\* dict[kw] = cat: a new key goes last, an existing key keeps its position
DictPut(d, kw, cat) ==
    IF \E i \in 1..Len(d) : d[i].kw = kw
    THEN [i \in 1..Len(d) |-> IF d[i].kw = kw THEN [kw |-> kw, cat |-> cat] ELSE d[i]]
    ELSE Append(d, [kw |-> kw, cat |-> cat])

RECURSIVE DictPutAll(_, _)
DictPutAll(d, pairs) ==
    IF pairs = <<>> THEN d
    ELSE DictPutAll(IF Head(pairs).kw = "" THEN d
                    ELSE DictPut(d, Head(pairs).kw, Head(pairs).cat),
                    Tail(pairs))

(* --------------------------- ruleset files ----------------------------- *)
\* data/base_keywords.json, the static baseline
BaseFile ==
    [HIGH     |-> << [cat |-> "monetary", kws |-> <<"rate_cut", "">>] >>,
     MEDIUM   |-> << [cat |-> "industry", kws |-> <<"chip">>] >>,
     EXCLUDED |-> {"VIP"}]

\* contents data/dynamic_keywords.json can have; "none" is a missing file
Overlays == {"none", "a", "b"}

OverlayFile(o) ==
    CASE o = "a" -> [HIGH     |-> << [cat |-> "people", kws |-> <<"governor">>] >>,
                     MEDIUM   |-> << [cat |-> "themes", kws |-> <<"rate_cut">>] >>,
                     EXCLUDED |-> {}]
      [] o = "b" -> [HIGH     |-> << [cat |-> "conflict", kws |-> <<"tariff", "chip">>] >>,
                     MEDIUM   |-> <<>>,
                     EXCLUDED |-> {}]
      [] OTHER    -> [HIGH |-> <<>>, MEDIUM |-> <<>>, EXCLUDED |-> {}]

\* what a refresh can write
NewOverlays == {"b"}

EmptyRuleset == [high |-> <<>>, medium |-> <<>>, exclude |-> {}]

\* a reload that loads the files on top of the tables it finds
NotCleared(rs) == rs

\* MessageFilter.reload, lines 58-60: the three tables are cleared
Cleared(rs) == EmptyRuleset

\* MessageFilter._load_file: add one file's keywords to the tables
LoadFile(rs, file) ==
    [high    |-> DictPutAll(rs.high, FlattenKeywords(file.HIGH)),
     medium  |-> DictPutAll(rs.medium, FlattenKeywords(file.MEDIUM)),
     exclude |-> rs.exclude \cup (file.EXCLUDED \ {""})]

\* MessageFilter.reload: clear the tables, load the baseline, then the overlay
Reload(o) == LoadFile(LoadFile(EmptyRuleset, BaseFile), OverlayFile(o))

(* ------------------------------- texts --------------------------------- *)
\* A text is what filter_message reads of it: its raw and stripped length,
\* the number of URL matches and the keywords that occur in it.
Texts ==
    { [raw |-> 0,  stripped |-> 0,  urls |-> 0, has |-> {}],
      [raw |-> 4,  stripped |-> 0,  urls |-> 0, has |-> {}],
      [raw |-> 9,  stripped |-> 9,  urls |-> 0, has |-> {"rate_cut"}],
      [raw |-> 80, stripped |-> 80, urls |-> 4, has |-> {"rate_cut"}],
      [raw |-> 40, stripped |-> 40, urls |-> 3, has |-> {"VIP", "rate_cut"}],
      [raw |-> 30, stripped |-> 30, urls |-> 3, has |-> {"chip", "rate_cut", "tariff"}],
      [raw |-> 30, stripped |-> 30, urls |-> 0, has |-> {"chip"}],
      [raw |-> 20, stripped |-> 20, urls |-> 0, has |-> {}] }

FilterModes == {"standard", "ai_only"}

\* the keywords the ruleset files mention
Keywords == {"rate_cut", "chip", "VIP", "governor", "tariff"}

\* text lengths around the minimum length, and a long text
Lengths == {0, MinLength - 1, MinLength, MinLength + LongBy}

\* every text over these lengths, link counts around the limit and keywords:
\* stripping never lengthens a text, and a link or a keyword takes room
AllTexts ==
    { t \in [raw : Lengths, stripped : Lengths,
             urls : {0, MaxUrlCount, MaxUrlCount + 1}, has : SUBSET Keywords] :
        /\ t.stripped <= t.raw
        /\ t.urls > 0 => t.stripped = MinLength + LongBy
        /\ t.has # {} => t.stripped > 0 }

\* a scan that lists the keyword found last in the table first
MatchesNewestFirst(d, text) ==
    LET m == SelectSeq(d, LAMBDA e : e.kw \in text.has)
    IN  [i \in 1..Len(m) |-> m[Len(m) + 1 - i]]

\* the keywords of a table that occur in the text, in table order
Matches(d, text) == SelectSeq(d, LAMBDA e : e.kw \in text.has)

\* a length check that only refuses the empty text
TooShortOnlyEmpty(text) == text.raw = 0

\* line 103: `not text or len(text.strip()) < self._min_length`
TooShort(text) == text.raw = 0 \/ text.stripped < MinLength

\* a link check that also refuses a text with exactly the allowed number
TooManyUrlsAtLimit(text) == text.urls >= MaxUrlCount

\* lines 106-107: more URL matches than max_url_count
TooManyUrls(text) == text.urls > MaxUrlCount

\* a filter that never bypasses the keyword tables
ModeNeverBypasses(mode) == FALSE

\* line 116: self._filter_mode == 'ai_only'
ModeBypasses(mode) == mode = "ai_only"

\* a filter_message that looks at the mode before the exclude keywords
FilterMessageModeFirst(text, rs, mode) ==
    IF text.raw = 0 \/ text.stripped < MinLength
    THEN [level |-> "excluded", matched |-> <<>>, category |-> ""]
    ELSE IF text.urls > MaxUrlCount
    THEN [level |-> "excluded", matched |-> <<>>, category |-> ""]
    ELSE IF mode = "ai_only"
    THEN [level |-> "low", matched |-> <<>>, category |-> ""]
    ELSE IF rs.exclude \cap text.has # {}
    THEN [level |-> "excluded",
          matched |-> << CHOOSE k \in rs.exclude \cap text.has : TRUE >>,
          category |-> ""]
    ELSE IF Matches(rs.high, text) # <<>>
    THEN [level    |-> "high",
          matched  |-> [i \in 1..Len(Matches(rs.high, text)) |-> Matches(rs.high, text)[i].kw],
          category |-> Matches(rs.high, text)[1].cat]
    ELSE IF Matches(rs.medium, text) # <<>>
    THEN [level    |-> "medium",
          matched  |-> [i \in 1..Len(Matches(rs.medium, text)) |-> Matches(rs.medium, text)[i].kw],
          category |-> Matches(rs.medium, text)[1].cat]
    ELSE [level |-> "low", matched |-> <<>>, category |-> ""]

\* a filter_message that looks at the medium table before the high table
FilterMessageMediumFirst(text, rs, mode) ==
    IF text.raw = 0 \/ text.stripped < MinLength
    THEN [level |-> "excluded", matched |-> <<>>, category |-> ""]
    ELSE IF text.urls > MaxUrlCount
    THEN [level |-> "excluded", matched |-> <<>>, category |-> ""]
    ELSE IF rs.exclude \cap text.has # {}
    THEN [level |-> "excluded",
          matched |-> << CHOOSE k \in rs.exclude \cap text.has : TRUE >>,
          category |-> ""]
    ELSE IF mode = "ai_only"
    THEN [level |-> "low", matched |-> <<>>, category |-> ""]
    ELSE IF Matches(rs.medium, text) # <<>>
    THEN [level    |-> "medium",
          matched  |-> [i \in 1..Len(Matches(rs.medium, text)) |-> Matches(rs.medium, text)[i].kw],
          category |-> Matches(rs.medium, text)[1].cat]
    ELSE IF Matches(rs.high, text) # <<>>
    THEN [level    |-> "high",
          matched  |-> [i \in 1..Len(Matches(rs.high, text)) |-> Matches(rs.high, text)[i].kw],
          category |-> Matches(rs.high, text)[1].cat]
    ELSE [level |-> "low", matched |-> <<>>, category |-> ""]

\* MessageFilter.filter_message
FilterMessage(text, rs, mode) ==
    IF TooShort(text)
    THEN [level |-> "excluded", matched |-> <<>>, category |-> ""]
    ELSE IF TooManyUrls(text)
    THEN [level |-> "excluded", matched |-> <<>>, category |-> ""]
    ELSE IF rs.exclude \cap text.has # {}
    THEN [level |-> "excluded",
          matched |-> << CHOOSE k \in rs.exclude \cap text.has : TRUE >>,
          category |-> ""]
    ELSE IF ModeBypasses(mode)
    THEN [level |-> "low", matched |-> <<>>, category |-> ""]
    ELSE IF Matches(rs.high, text) # <<>>
    THEN [level    |-> "high",
          matched  |-> [i \in 1..Len(Matches(rs.high, text)) |-> Matches(rs.high, text)[i].kw],
          category |-> Matches(rs.high, text)[1].cat]
    ELSE IF Matches(rs.medium, text) # <<>>
    THEN [level    |-> "medium",
          matched  |-> [i \in 1..Len(Matches(rs.medium, text)) |-> Matches(rs.medium, text)[i].kw],
          category |-> Matches(rs.medium, text)[1].cat]
    ELSE [level |-> "low", matched |-> <<>>, category |-> ""]

(* --------------------------- pending deque ----------------------------- *)
\* a deque built without maxlen
OfferUnbounded(q, m) == Append(q, m)

\* deque(maxlen=...).append: a full deque drops its leftmost element
Offer(q, m) ==
    IF Len(q) >= QueueMaxLen THEN Append(Tail(q), m) ELSE Append(q, m)

Reverse(q) == [i \in 1..Len(q) |-> q[Len(q) + 1 - i]]

\* a drain that hands the newest message over first
DrainNewestFirst(q) == [batch |-> Reverse(q), rest |-> <<>>]

\* a drain that forgets self._queue.clear()
DrainKeepsQueue(q) == [batch |-> q, rest |-> q]

\* a drain that leaves the oldest message in the deque as well
DrainLeavesFirst(q) ==
    [batch |-> q, rest |-> IF q = <<>> THEN <<>> ELSE << Head(q) >>]

\* a drain that hands over the oldest message only and clears the queue
DrainTakesFirst(q) == [batch |-> << Head(q) >>, rest |-> <<>>]

\* messages = list(self._queue); self._queue.clear()
DrainAll(q) == [batch |-> q, rest |-> <<>>]

(* ------------------------------- state --------------------------------- *)
VARIABLES
    running,        \* Monitor._running
    mainPc,         \* where run_monitor / Monitor.run / Monitor.stop stands
    cur,            \* the coroutine holding the event loop, "none" when it is free
    clientRunning,  \* TelegramClientWrapper._running
    connected,      \* the Telegram connection is up
    handlerOn,      \* the NewMessage handler is registered
    disconnects,    \* calls of TelegramClient.disconnect() made so far
    taskPc,         \* per job task: its position
    mustCancel,     \* per job task: cancel() was called and not yet delivered
    analysis,       \* the worker thread running analyze_batch
    digestRun,      \* the worker thread running DailyReport.run
    trendRun,       \* the worker thread running TrendUpdater.update
    queue,          \* Monitor._queue, as delivery numbers of the queued messages
    stats,          \* Monitor._stats
    delivered,      \* number of events handed to the callback so far
    drainedHigh,    \* highest delivery number in the batches that were drained and are over
    batchMsgs,      \* `messages` of the _process_batch call in progress
    flush,          \* what the _process_batch call that just ended did
    cbPc,           \* position of the _on_message call in progress
    cbEmpty,        \* its message has no text
    cbPre,          \* stats, queue and orchestrator state when it was entered
    cbLevel,        \* the impact level filter_message gave it
    cbErr,          \* it raised inside its try block
    cbExit,         \* how it ended
    dropped,        \* number of messages an error inside the callback dropped
    dynFile,        \* contents of data/dynamic_keywords.json
    ruleset,        \* the keyword tables of the MessageFilter
    filterMode,     \* config.filter_mode
    probe,          \* a filter_message call made directly: its text and its result
    clock           \* a fixed-time job loop run alone: wall clock, target, last fire

vars == << running, mainPc, cur, clientRunning, connected, handlerOn, disconnects,
           taskPc, mustCancel, analysis, digestRun, trendRun, queue, stats,
           delivered, drainedHigh, batchMsgs, flush, cbPc, cbEmpty, cbPre, cbLevel,
           cbErr, cbExit, dropped, dynFile, ruleset, filterMode, probe, clock >>

mainVars   == << running, mainPc, clientRunning, connected, handlerOn, disconnects >>
cbVars     == << delivered, cbPc, cbEmpty, cbPre, cbLevel, cbErr, cbExit, dropped >>
aloneVars  == << probe, clock >>
filterVars == << dynFile, ruleset, filterMode, aloneVars >>
threadVars == << analysis, digestRun, trendRun >>
batchVars  == << drainedHigh, batchMsgs, flush >>

\* a task that has ended: its loop was left, CancelledError escaped from it, or
\* another exception did
Terminal == {"done", "cancelled", "failed"}

ThreadIdle == [st |-> "idle"]
NoFlush    == [st |-> "none"]
NoPre      == [st |-> "none"]
NoProbe    == [st |-> "none"]
NoClock    == [pc |-> "none"]

\* Stats()
NewStats == [total |-> 0, queued |-> 0, excluded |-> 0,
             analyzed |-> 0, valuable |-> 0, pushed |-> 0]

\* Monitor.__init__ without the MessageFilter
InitMonitor ==
    /\ running = FALSE
    /\ mainPc = "init"
    /\ cur = "main"
    /\ clientRunning = FALSE
    /\ connected = FALSE
    /\ handlerOn = FALSE
    /\ disconnects = 0
    /\ taskPc = [j \in Jobs |-> "none"]
    /\ mustCancel = [j \in Jobs |-> FALSE]
    /\ analysis = ThreadIdle
    /\ digestRun = ThreadIdle
    /\ trendRun = ThreadIdle
    /\ queue = <<>>
    /\ stats = NewStats
    /\ delivered = 0
    /\ drainedHigh = 0
    /\ batchMsgs = <<>>
    /\ flush = NoFlush
    /\ cbPc = "idle"
    /\ cbEmpty = FALSE
    /\ cbPre = NoPre
    /\ cbLevel = "none"
    /\ cbErr = FALSE
    /\ cbExit = "none"
    /\ dropped = 0

\* Monitor.__init__; the MessageFilter constructor loads the tables once
Init ==
    /\ InitMonitor
    /\ probe = NoProbe
    /\ clock = NoClock
    /\ dynFile = "a"
    /\ ruleset = Reload(dynFile)
    /\ filterMode \in FilterModes

(* ------------------------- ingestion callback -------------------------- *)
\* an _on_message that awaits something between its steps
CallbackAwaits == TRUE

\* _on_message contains no await: once entered it keeps the loop to its end
CallbackSuspends == FALSE

AfterCallbackStep == IF CallbackSuspends THEN "none" ELSE "cb"

\* an _on_message without the `return` of line 161
EnqueueFallsThrough(st, q, level, id) ==
    IF level = "excluded"
    THEN [stats |-> [st EXCEPT !.excluded = @ + 1, !.queued = @ + 1],
          queue |-> Offer(q, id)]
    ELSE [stats |-> [st EXCEPT !.queued = @ + 1], queue |-> Offer(q, id)]

\* an _on_message that takes an excluded message out of total again
EnqueueUncountsExcluded(st, q, level, id) ==
    IF level = "excluded"
    THEN [stats |-> [st EXCEPT !.excluded = @ + 1, !.total = @ - 1], queue |-> q]
    ELSE [stats |-> [st EXCEPT !.queued = @ + 1], queue |-> Offer(q, id)]

\* lines 159-169: count an excluded message, or queue the message and count it
Enqueue(st, q, level, id) ==
    IF level = "excluded"
    THEN [stats |-> [st EXCEPT !.excluded = @ + 1], queue |-> q]
    ELSE [stats |-> [st EXCEPT !.queued = @ + 1], queue |-> Offer(q, id)]

\* an _on_message without its try/except
OnMessagePropagates(raised) == IF raised THEN "raised" ELSE "returned"

\* lines 171-172: `except Exception` logs the error and the call returns
OnMessageExit(raised) == "returned"

\* the handler of client.py calls _on_message(message, chat); lines 148-152.
\* Of the text only `not text` is read here; the text itself is drawn where
\* line 157 reads it.
OnMessageEnter(cap) ==
    /\ cur = "none"
    /\ connected /\ handlerOn
    /\ cbPc = "idle"
    /\ delivered < cap
    /\ \E empty \in BOOLEAN :
          /\ cbEmpty' = empty
          /\ IF empty
             THEN /\ cbPc' = "done"
                  /\ cbExit' = OnMessageExit(FALSE)
                  /\ stats' = stats
             ELSE /\ cbPc' = "counted"
                  /\ cbExit' = "none"
                  /\ stats' = [stats EXCEPT !.total = @ + 1]
    /\ delivered' = delivered + 1
    /\ cbPre' = [st |-> "set", stats |-> stats, queue |-> queue, running |-> running,
                 taskPc |-> taskPc, mustCancel |-> mustCancel]
    /\ cbErr' = FALSE
    /\ cbLevel' = "none"
    /\ cur' = AfterCallbackStep
    /\ UNCHANGED << mainVars, taskPc, mustCancel, threadVars, queue, batchVars, filterVars,
                    dropped >>

\* lines 153-157: read the channel title and classify the text; either may raise
OnMessageClassify ==
    /\ cbPc = "counted"
    /\ cur \in {"cb", "none"}
    /\ \E raised \in BOOLEAN, text \in {t \in Texts : t.raw > 0} :
          /\ cbErr' = raised
          /\ dropped' = IF raised THEN dropped + 1 ELSE dropped
          /\ cbPc' = IF raised THEN "done" ELSE "classified"
          /\ cbExit' = IF raised THEN OnMessageExit(TRUE) ELSE "none"
          /\ cbLevel' = IF raised THEN "none"
                        ELSE FilterMessage(text, ruleset, filterMode).level
    /\ cur' = AfterCallbackStep
    /\ UNCHANGED << mainVars, taskPc, mustCancel, threadVars, queue, stats, batchVars,
                    filterVars, delivered, cbPre, cbEmpty >>

\* lines 159-169
OnMessageEnqueue ==
    /\ cbPc = "classified"
    /\ cur \in {"cb", "none"}
    /\ LET r == Enqueue(stats, queue, cbLevel, delivered)
       IN  /\ stats' = r.stats
           /\ queue' = r.queue
    /\ cbPc' = "done"
    /\ cbExit' = OnMessageExit(FALSE)
    /\ cur' = AfterCallbackStep
    /\ UNCHANGED << mainVars, taskPc, mustCancel, threadVars, batchVars, filterVars,
                    delivered, cbEmpty, cbPre, cbLevel, cbErr, dropped >>

\* the call is over and the handler gives the loop back
OnMessageReturn ==
    /\ cbPc = "done"
    /\ cur \in {"cb", "none"}
    /\ cbPc' = "idle"
    /\ cbPre' = NoPre
    /\ cbErr' = FALSE
    /\ cbExit' = "none"
    /\ cbLevel' = "none"
    /\ cbEmpty' = FALSE
    /\ cur' = "none"
    /\ UNCHANGED << mainVars, taskPc, mustCancel, threadVars, queue, stats, batchVars,
                    filterVars, delivered, dropped >>

(* ------------------------------ job tasks ------------------------------ *)
\* a loop that is left after its first cycle
LoopLeaves(j, sleepPc) == "done"

\* `while self._running:` at the top of a job loop
LoopCheck(j, sleepPc) == IF running THEN sleepPc ELSE "done"

\* a job coroutine may take its next step
CanStep(j) == cur = "none" /\ ~mustCancel[j]

\* analyze_batch results: failure, or success with a list of judged items
Magnitudes == {IMPACT_THRESHOLD - 1, IMPACT_THRESHOLD}

ItemLists ==
    UNION { [1..n -> Magnitudes] : n \in 0..MaxItems }

\* a filter that drops the items exactly at the threshold
ValuableAbove(items) == SelectSeq(items, LAMBDA m : m > IMPACT_THRESHOLD)

\* line 276: the items at or above the threshold, in the order returned
Valuable(items) == SelectSeq(items, LAMBDA m : m >= IMPACT_THRESHOLD)

\* a _process_batch that counts the batch only after the success check
ProcessResultSkipsCount(st, n, res, pushOk) ==
    LET counted == [st EXCEPT !.analyzed = @ + n]
        kept    == SelectSeq(res.items, LAMBDA m : m >= IMPACT_THRESHOLD)
    IN  IF ~res.success
        THEN [stats |-> st, saved |-> <<>>, saveCalls |-> 0, pushCalls |-> 0]
        ELSE IF kept = <<>>
        THEN [stats |-> [counted EXCEPT !.valuable = @ + Len(kept)],
              saved |-> <<>>, saveCalls |-> 0, pushCalls |-> 0]
        ELSE [stats |-> [counted EXCEPT !.valuable = @ + Len(kept),
                                        !.pushed = IF pushOk THEN @ + 1 ELSE @],
              saved |-> kept, saveCalls |-> 1, pushCalls |-> 1]

\* a _process_batch that counts every push it attempts
ProcessResultCountsEveryPush(st, n, res, pushOk) ==
    LET counted == [st EXCEPT !.analyzed = @ + n]
        kept    == SelectSeq(res.items, LAMBDA m : m >= IMPACT_THRESHOLD)
    IN  IF ~res.success
        THEN [stats |-> counted, saved |-> <<>>, saveCalls |-> 0, pushCalls |-> 0]
        ELSE IF kept = <<>>
        THEN [stats |-> [counted EXCEPT !.valuable = @ + Len(kept)],
              saved |-> <<>>, saveCalls |-> 0, pushCalls |-> 0]
        ELSE [stats |-> [counted EXCEPT !.valuable = @ + Len(kept), !.pushed = @ + 1],
              saved |-> kept, saveCalls |-> 1, pushCalls |-> 1]

\* _process_batch from line 270 on: n drained messages, the analysis result,
\* and what the notifier answers if a push is made
ProcessResult(st, n, res, pushOk) ==
    LET counted == [st EXCEPT !.analyzed = @ + n]
        kept    == Valuable(res.items)
    IN  IF ~res.success
        THEN [stats |-> counted, saved |-> <<>>, saveCalls |-> 0, pushCalls |-> 0]
        ELSE IF kept = <<>>
        THEN [stats |-> [counted EXCEPT !.valuable = @ + Len(kept)],
              saved |-> <<>>, saveCalls |-> 0, pushCalls |-> 0]
        ELSE [stats |-> [counted EXCEPT !.valuable = @ + Len(kept),
                                        !.pushed = IF pushOk THEN @ + 1 ELSE @],
              saved |-> kept, saveCalls |-> 1, pushCalls |-> 1]

\* the highest delivery number of h and the messages of a batch
HighOf(h, batch) ==
    IF batch = <<>> THEN h
    ELSE CHOOSE x \in {h} \cup {batch[i] : i \in 1..Len(batch)} :
            \A y \in {h} \cup {batch[i] : i \in 1..Len(batch)} : y <= x

\* the interval sleep ends: lines 180-181 and _process_batch up to its await
BatchFire ==
    /\ taskPc["batch"] = "sleep"
    /\ CanStep("batch")
    /\ IF queue = <<>>
       THEN /\ taskPc' = [taskPc EXCEPT !["batch"] = LoopCheck("batch", "sleep")]
            /\ UNCHANGED << queue, batchMsgs, analysis >>
       ELSE /\ batchMsgs' = DrainAll(queue).batch
            /\ queue' = DrainAll(queue).rest
            /\ analysis' = [st |-> "running"]
            /\ taskPc' = [taskPc EXCEPT !["batch"] = "analyze"]
    /\ UNCHANGED << mainVars, cur, mustCancel, digestRun, trendRun, stats, flush,
                    drainedHigh, cbVars, filterVars >>

\* the worker thread: NewsAnalyzer.analyze_batch returns
AnalyzeBatch ==
    /\ analysis.st = "running"
    /\ \/ analysis' = [st |-> "finished", success |-> FALSE, items |-> <<>>]
       \/ \E items \in ItemLists :
             analysis' = [st |-> "finished", success |-> TRUE, items |-> items]
    /\ UNCHANGED << mainVars, cur, taskPc, mustCancel, digestRun, trendRun, queue,
                    stats, batchVars, cbVars, filterVars >>

\* _process_batch resumes with the result: lines 270-281.  Line 276 reads
\* impact_magnitude of every item of a successful result and raises if an item
\* is not a mapping or its magnitude is not a number; the exception ends the
\* body and `except Exception` of _batch_loop (lines 184-185) logs it and goes
\* round the loop, with no sleep of its own.  What follows the
\* `if valuable:` runs without an await: save_batch and the notifier are called
\* on the thread of the event loop, which the task keeps until it is back in
\* _batch_loop.
BatchResume ==
    /\ taskPc["batch"] = "analyze"
    /\ analysis.st = "finished"
    /\ CanStep("batch")
    /\ \E raised \in {r \in BOOLEAN : r => analysis.success} :
          LET r == ProcessResult(stats, Len(batchMsgs), analysis, FALSE)
          IN  IF raised
              THEN /\ stats' = [stats EXCEPT !.analyzed = @ + Len(batchMsgs)]
                   /\ flush' = [st |-> "raised", n |-> Len(batchMsgs),
                                success |-> TRUE, items |-> <<>>,
                                saved |-> <<>>, saveCalls |-> 0, saveOk |-> TRUE,
                                pushCalls |-> 0, pushOk |-> FALSE,
                                pre |-> stats]
                   /\ taskPc' = [taskPc EXCEPT !["batch"] = "flushed"]
              ELSE /\ stats' = r.stats
                   /\ flush' = [st |-> IF r.saveCalls = 0 THEN "set" ELSE "saving",
                                n |-> Len(batchMsgs),
                                success |-> analysis.success, items |-> analysis.items,
                                saved |-> <<>>, saveCalls |-> 0, saveOk |-> TRUE,
                                pushCalls |-> 0, pushOk |-> FALSE,
                                pre |-> stats]
                   /\ taskPc' = [taskPc EXCEPT !["batch"] =
                                    IF r.saveCalls = 0 THEN "flushed" ELSE "save"]
    /\ analysis' = ThreadIdle
    /\ cur' = "batch"
    /\ UNCHANGED << mainVars, mustCancel, digestRun, trendRun, queue, drainedHigh,
                    batchMsgs, cbVars, filterVars >>

\* a _push that waits for the notifier on another thread
PushAwaits == TRUE

\* _push, lines 331-341: no await inside, `await self._push(...)` at line 285
\* runs it to its end without giving the loop away
PushSuspends == FALSE

AfterSaveStep == IF PushSuspends THEN "none" ELSE "batch"

\* line 282: Storage.save_batch returns the number of rows it wrote, 0 after an
\* error that it caught and rolled back; its caller drops the return value
BatchSave ==
    /\ taskPc["batch"] = "save"
    /\ cur = "batch"
    /\ \E saveOk \in BOOLEAN :
          LET r == ProcessResult(flush.pre, flush.n, flush, FALSE)
          IN  flush' = [flush EXCEPT !.st = "pushing", !.saved = r.saved,
                                     !.saveCalls = r.saveCalls, !.saveOk = saveOk]
    /\ taskPc' = [taskPc EXCEPT !["batch"] = "push"]
    /\ cur' = AfterSaveStep
    /\ UNCHANGED << mainVars, mustCancel, threadVars, queue, stats, drainedHigh,
                    batchMsgs, cbVars, filterVars >>

\* lines 284-286: _push calls the notifier and the push is counted if it went out
BatchPush ==
    /\ taskPc["batch"] = "push"
    /\ cur = AfterSaveStep
    /\ ~(PushSuspends /\ mustCancel["batch"])
    /\ \E pushOk \in BOOLEAN :
          LET r == ProcessResult(flush.pre, flush.n, flush, pushOk)
          IN  /\ stats' = [stats EXCEPT !.pushed = r.stats.pushed]
              /\ flush' = [flush EXCEPT !.st = "set", !.pushCalls = r.pushCalls,
                                        !.pushOk = pushOk]
    /\ taskPc' = [taskPc EXCEPT !["batch"] = "flushed"]
    /\ cur' = "batch"
    /\ UNCHANGED << mainVars, mustCancel, threadVars, queue, drainedHigh,
                    batchMsgs, cbVars, filterVars >>

\* back in _batch_loop: the next `while self._running` and the next sleep
BatchLoop ==
    /\ taskPc["batch"] = "flushed"
    /\ cur = "batch"
    /\ taskPc' = [taskPc EXCEPT !["batch"] = LoopCheck("batch", "sleep")]
    /\ batchMsgs' = <<>>
    /\ drainedHigh' = HighOf(drainedHigh, batchMsgs)
    /\ flush' = NoFlush
    /\ cur' = "none"
    /\ UNCHANGED << mainVars, mustCancel, threadVars, queue, stats, cbVars, filterVars >>

\* a DailyReport.generate without the `if not messages` return
DailyReportAlwaysSends(n, queryRaises, aiOk, sendOk) ==
    IF queryRaises
    THEN [st |-> "finished", items |-> 0, ai |-> TRUE, marks |-> 0, sends |-> 0,
          result |-> "raised"]
    ELSE [st |-> "finished", items |-> n, ai |-> (n = 0 \/ aiOk),
          marks |-> IF n = 0 THEN 0 ELSE 1, sends |-> 1,
          result |-> IF sendOk THEN "true" ELSE "false"]

\* DailyReport.run: generate (query, synopsis, format, mark_reported), then
\* send.  n rows come back from the query; aiOk is whether the model produced
\* the synopsis (generate_daily_report returns a text saying that it failed
\* when it did not); sendOk is what the notifier answers.
DailyReportRun(n, queryRaises, aiOk, sendOk) ==
    IF queryRaises
    THEN [st |-> "finished", items |-> 0, ai |-> TRUE, marks |-> 0, sends |-> 0,
          result |-> "raised"]
    ELSE IF n = 0
    THEN [st |-> "finished", items |-> 0, ai |-> TRUE, marks |-> 0, sends |-> 0,
          result |-> "false"]
    ELSE [st |-> "finished", items |-> n, ai |-> aiOk, marks |-> 1, sends |-> 1,
          result |-> IF sendOk THEN "true" ELSE "false"]

\* the sleep until 8:30 ends; the report is handed to a worker thread
DigestFire ==
    /\ taskPc["digest"] = "sleep"
    /\ CanStep("digest")
    /\ digestRun' = [st |-> "running"]
    /\ taskPc' = [taskPc EXCEPT !["digest"] = "run"]
    /\ UNCHANGED << mainVars, cur, mustCancel, analysis, trendRun, queue, stats,
                    batchVars, cbVars, filterVars >>

\* the worker thread: DailyReport.run
DigestThread ==
    /\ digestRun.st = "running"
    /\ \E n \in 0..MaxDaily, queryRaises \in BOOLEAN, aiOk \in BOOLEAN,
          sendOk \in BOOLEAN :
          digestRun' = DailyReportRun(n, queryRaises, aiOk, sendOk)
    /\ UNCHANGED << mainVars, cur, taskPc, mustCancel, analysis, trendRun, queue,
                    stats, batchVars, cbVars, filterVars >>

\* lines 208-219: the loop resumes; an exception sends it to the one-hour sleep
DigestResume ==
    /\ taskPc["digest"] = "run"
    /\ digestRun.st = "finished"
    /\ CanStep("digest")
    /\ taskPc' = [taskPc EXCEPT !["digest"] =
                     IF digestRun.result = "raised" THEN "backoff"
                     ELSE LoopCheck("digest", "sleep")]
    /\ digestRun' = ThreadIdle
    /\ UNCHANGED << mainVars, cur, mustCancel, analysis, trendRun, queue, stats,
                    batchVars, cbVars, filterVars >>

\* line 219: the one-hour sleep ends
DigestBackoffEnd ==
    /\ taskPc["digest"] = "backoff"
    /\ CanStep("digest")
    /\ taskPc' = [taskPc EXCEPT !["digest"] = LoopCheck("digest", "sleep")]
    /\ UNCHANGED << mainVars, cur, mustCancel, threadVars, queue, stats, batchVars,
                    cbVars, filterVars >>

\* the worker thread: TrendUpdater.update writes the overlay when it succeeds
\* and returns False when it fails; `raised` is an error that reaches the
\* `await asyncio.to_thread(...)` of the loop instead of a return value
TrendThread ==
    /\ trendRun.st = "running"
    /\ \/ /\ \E raised \in BOOLEAN :
                trendRun' = [st |-> "finished", ok |-> FALSE, raised |-> raised]
          /\ dynFile' = dynFile
       \/ \E o \in NewOverlays :
             /\ trendRun' = [st |-> "finished", ok |-> TRUE, raised |-> FALSE]
             /\ dynFile' = o
    /\ UNCHANGED << mainVars, cur, taskPc, mustCancel, analysis, digestRun, queue,
                    stats, batchVars, cbVars, ruleset, filterMode, aloneVars >>

\* a reload that gives the loop away between its steps
ReloadAwaits == TRUE

\* MessageFilter.reload contains no await and is called from the coroutine
ReloadSuspends == FALSE

AfterReloadStep == IF ReloadSuspends THEN "none" ELSE "trend"

\* the update is over.  Startup (lines 229-230): the return value is dropped and
\* reload() is called; an error leaves _trend_loop, which has no try around
\* these lines.  Scheduled run (lines 245-256): reload() is called if the update
\* returned True, an error goes to the handler of line 254 and its one-hour
\* sleep.  reload() begins by clearing the three tables (lines 58-60).
TrendResume ==
    /\ taskPc["trend"] \in {"startup", "update"}
    /\ trendRun.st = "finished"
    /\ CanStep("trend")
    /\ IF trendRun.raised
       THEN /\ taskPc' = [taskPc EXCEPT !["trend"] =
                             IF taskPc["trend"] = "startup" THEN "failed" ELSE "backoff"]
            /\ trendRun' = ThreadIdle
            /\ UNCHANGED << ruleset, cur >>
       ELSE IF taskPc["trend"] = "startup" \/ trendRun.ok
       THEN /\ ruleset' = Cleared(ruleset)
            /\ taskPc' = [taskPc EXCEPT !["trend"] = "cleared"]
            /\ cur' = AfterReloadStep
            /\ UNCHANGED trendRun
       ELSE /\ taskPc' = [taskPc EXCEPT !["trend"] = LoopCheck("trend", "sleep")]
            /\ trendRun' = ThreadIdle
            /\ UNCHANGED << ruleset, cur >>
    /\ UNCHANGED << mainVars, mustCancel, analysis, digestRun, queue, stats,
                    batchVars, cbVars, dynFile, filterMode, aloneVars >>

\* reload, line 63: the baseline file is loaded into the cleared tables
TrendLoadBase ==
    /\ taskPc["trend"] = "cleared"
    /\ cur \in {"trend", "none"}
    /\ ruleset' = LoadFile(ruleset, BaseFile)
    /\ taskPc' = [taskPc EXCEPT !["trend"] = "base"]
    /\ cur' = AfterReloadStep
    /\ UNCHANGED << mainVars, mustCancel, threadVars, queue, stats, batchVars, cbVars,
                    dynFile, filterMode, aloneVars >>

\* reload, line 66: the overlay file is loaded on top; back in _trend_loop the
\* next `while self._running` and the next sleep
TrendLoadOverlay ==
    /\ taskPc["trend"] = "base"
    /\ cur \in {"trend", "none"}
    /\ ruleset' = LoadFile(ruleset, OverlayFile(dynFile))
    /\ trendRun' = ThreadIdle
    /\ taskPc' = [taskPc EXCEPT !["trend"] = LoopCheck("trend", "sleep")]
    /\ cur' = "none"
    /\ UNCHANGED << mainVars, mustCancel, analysis, digestRun, queue, stats, batchVars,
                    cbVars, dynFile, filterMode, aloneVars >>

\* line 256: the one-hour sleep after an error ends
TrendBackoffEnd ==
    /\ taskPc["trend"] = "backoff"
    /\ CanStep("trend")
    /\ taskPc' = [taskPc EXCEPT !["trend"] = LoopCheck("trend", "sleep")]
    /\ UNCHANGED << mainVars, cur, mustCancel, threadVars, queue, stats, batchVars,
                    cbVars, filterVars >>

\* the sleep until 6:00 ends
TrendFire ==
    /\ taskPc["trend"] = "sleep"
    /\ CanStep("trend")
    /\ trendRun' = [st |-> "running"]
    /\ taskPc' = [taskPc EXCEPT !["trend"] = "update"]
    /\ UNCHANGED << mainVars, cur, mustCancel, analysis, digestRun, queue, stats,
                    batchVars, cbVars, filterVars >>

\* the awaits of the three loops, where a task can be suspended
AwaitPcs ==
    {"sleep", "analyze", "run", "backoff", "startup", "update"}
        \cup (IF PushSuspends THEN {"push"} ELSE {})

\* a task that swallows CancelledError and goes on waiting
AfterCancelKeepsWaiting(j, pc) == pc

\* where CancelledError leaves a task that is suspended at `pc`: the loops
\* catch it and break; it escapes from the startup update of _trend_loop and
\* from the sleep inside the `except Exception` handler
AfterCancel(j, pc) ==
    IF pc \in {"startup", "backoff"} THEN "cancelled" ELSE "done"

\* a cancelled task wakes up with CancelledError at its await
TaskCancelled(j) ==
    /\ mustCancel[j]
    /\ cur = "none"
    /\ taskPc[j] \in AwaitPcs
    /\ taskPc' = [taskPc EXCEPT ![j] = AfterCancel(j, taskPc[j])]
    /\ mustCancel' = [mustCancel EXCEPT ![j] = FALSE]
    /\ batchMsgs' = IF j = "batch" THEN <<>> ELSE batchMsgs
    /\ drainedHigh' = IF j = "batch" THEN HighOf(drainedHigh, batchMsgs) ELSE drainedHigh
    /\ UNCHANGED << mainVars, cur, threadVars, queue, stats, flush, cbVars, filterVars >>

(* ---------------------------- orchestrator ----------------------------- *)
jobVars == << taskPc, mustCancel, threadVars, queue, stats, batchVars >>

\* Monitor.start: connect, subscribe, and give up when nothing was subscribed.
\* TelegramClientWrapper.start returns False with the connection open when the
\* session is not authorized (client.py:71-74), and without one when connecting
\* raised.  "refused" is start() having returned False.
Start ==
    /\ mainPc = "init"
    /\ cur = "main"
    /\ ~running
    /\ \E outcome \in {"ok", "unauthorized", "error"}, subscribed \in {0, 1} :
          IF outcome # "ok"
          THEN /\ connected' = (outcome = "unauthorized")
               /\ mainPc' = "refused"
               /\ cur' = "main"
               /\ UNCHANGED << running, clientRunning, handlerOn, disconnects >>
          ELSE IF subscribed = 0
          THEN /\ connected' = FALSE
               /\ disconnects' = disconnects + 1
               /\ mainPc' = "refused"
               /\ cur' = "main"
               /\ UNCHANGED << running, clientRunning, handlerOn >>
          ELSE /\ connected' = TRUE
               /\ clientRunning' = TRUE
               /\ handlerOn' = TRUE
               /\ running' = TRUE
               /\ mainPc' = "started"
               /\ cur' = "main"
               /\ UNCHANGED disconnects
    /\ UNCHANGED << jobVars, cbVars, filterVars >>

\* where a new task stands once it has run up to its first await: the loop
\* runs new tasks in creation order as soon as Monitor.run suspends, before it
\* polls for any event.  _batch_loop and _daily_report_loop reach their sleep,
\* _trend_loop hands the startup update to a worker thread.
FirstAwait(j) ==
    CASE j = "batch"  -> LoopCheck(j, "sleep")
      [] j = "digest" -> LoopCheck(j, "sleep")
      [] j = "trend"  -> "startup"

\* Monitor.run: create the three tasks, then wait in run_until_disconnected.
\* run_monitor returns when start() said False; a caller that goes on to run()
\* all the same meets the guard of lines 101-102.
Run ==
    /\ cur = "main"
    /\ (mainPc = "started" \/ mainPc = "refused")
    /\ IF running
       THEN /\ taskPc' = [j \in Jobs |-> FirstAwait(j)]
            /\ trendRun' = [st |-> "running"]
            /\ mainPc' = "serving"
       ELSE /\ taskPc' = taskPc
            /\ trendRun' = trendRun
            /\ mainPc' = "stopped"
    /\ cur' = "none"
    /\ UNCHANGED << running, clientRunning, connected, handlerOn, disconnects,
                    mustCancel, analysis, digestRun, queue, stats, batchVars, cbVars,
                    filterVars >>

\* TelegramClientWrapper.stop
ClientStop(isRunning) ==
    IF isRunning
    THEN [clientRunning |-> FALSE, connected |-> FALSE, calls |-> 1]
    ELSE [clientRunning |-> isRunning, connected |-> connected, calls |-> 0]

\* run_until_disconnected ends, because the connection dropped or because the
\* task running run_monitor was cancelled (SIGINT under asyncio.run); run_forever
\* swallows CancelledError and its `finally` stops the client
RunForeverExit ==
    /\ mainPc = "serving"
    /\ cur = "none"
    /\ LET c == ClientStop(clientRunning)
       IN  /\ clientRunning' = c.clientRunning
           /\ connected' = c.connected
           /\ disconnects' = disconnects + c.calls
    /\ mainPc' = "stopping"
    /\ UNCHANGED << running, handlerOn, cur, jobVars, cbVars, filterVars >>

\* a stop() that leaves _running as it is
RunningKeptByStop == TRUE

\* line 118: self._running = False
RunningAfterStop == FALSE

\* the order in which Monitor.stop cancels and awaits the tasks
StopOrder == << "batch", "digest", "trend" >>

\* the position of Monitor.stop while it awaits the task at position k of
\* StopOrder (lines 123, 130, 137)
AwaitingPc(k) == << "await_batch", "await_digest", "await_trend" >>[k]

\* the position of StopOrder that Monitor.stop awaits at `pc`, 0 if none
Awaited(pc) ==
    IF \E k \in 1..Len(StopOrder) : AwaitingPc(k) = pc
    THEN CHOOSE k \in 1..Len(StopOrder) : AwaitingPc(k) = pc
    ELSE 0

\* the first task from position i of StopOrder on that is still alive, 0 if none:
\* cancel() and `await` of a finished task go through without suspending
NextAlive(i) ==
    IF \E k \in i..Len(StopOrder) : taskPc[StopOrder[k]] \notin Terminal
    THEN CHOOSE k \in i..Len(StopOrder) :
            /\ taskPc[StopOrder[k]] \notin Terminal
            /\ \A h \in i..(k - 1) : taskPc[StopOrder[h]] \in Terminal
    ELSE 0

\* Monitor.stop from position i of StopOrder on, up to its next suspension.
\* `await` of a task that ended with an exception raises it again, only
\* CancelledError is caught (lines 122-139): stop() is then left before line 141.
StopFrom(i) ==
    IF NextAlive(i) # 0
    THEN /\ mustCancel' = [mustCancel EXCEPT ![StopOrder[NextAlive(i)]] = TRUE]
         /\ mainPc' = AwaitingPc(NextAlive(i))
         /\ UNCHANGED << clientRunning, connected, disconnects >>
    ELSE /\ IF \E j \in Jobs : taskPc[j] = "failed"
            THEN UNCHANGED << clientRunning, connected, disconnects >>
            ELSE LET c == ClientStop(clientRunning)
                 IN  /\ clientRunning' = c.clientRunning
                     /\ connected' = c.connected
                     /\ disconnects' = disconnects + c.calls
         /\ mainPc' = "stopped"
         /\ UNCHANGED mustCancel

\* Monitor.stop called from the `finally` of Monitor.run
StopBegin ==
    /\ mainPc = "stopping"
    /\ cur = "none"
    /\ IF ~running
       THEN /\ mainPc' = "stopped"
            /\ UNCHANGED << running, mustCancel, clientRunning, connected, disconnects >>
       ELSE /\ running' = RunningAfterStop
            /\ StopFrom(1)
    /\ UNCHANGED << handlerOn, cur, taskPc, threadVars, queue, stats, batchVars,
                    cbVars, filterVars >>

\* the awaited task has ended: Monitor.stop goes on with the next one
StopResume ==
    /\ Awaited(mainPc) # 0
    /\ cur = "none"
    /\ taskPc[StopOrder[Awaited(mainPc)]] \in Terminal
    /\ StopFrom(Awaited(mainPc) + 1)
    /\ UNCHANGED << running, handlerOn, cur, taskPc, threadVars, queue, stats,
                    batchVars, cbVars, filterVars >>

\* run_monitor's `finally` calls Monitor.stop once more.  Every task has ended
\* by then, or was never created: were the guard of line 115 passed, cancel()
\* and `await` of the tasks would go through and the client would be stopped.
SecondStop ==
    /\ mainPc = "stopped"
    /\ cur = "none"
    /\ IF ~running
       THEN UNCHANGED << running, mustCancel, clientRunning, connected, disconnects >>
       ELSE /\ running' = RunningAfterStop
            /\ LET c == ClientStop(clientRunning)
               IN  /\ clientRunning' = c.clientRunning
                   /\ connected' = c.connected
                   /\ disconnects' = disconnects + c.calls
            /\ UNCHANGED mustCancel
    /\ mainPc' = "exit"
    /\ UNCHANGED << handlerOn, cur, taskPc, threadVars, queue, stats, batchVars,
                    cbVars, filterVars >>

(* ------------------------- the filter on its own ----------------------- *)
\* MessageFilter() over any contents of the overlay file
FilterInit ==
    /\ InitMonitor
    /\ probe = NoProbe
    /\ clock = NoClock
    /\ dynFile \in Overlays
    /\ ruleset = Reload(dynFile)
    /\ filterMode \in FilterModes

\* the overlay file is replaced and reload() is called
ProbeReload ==
    /\ \E o \in Overlays \ {dynFile} :
          /\ dynFile' = o
          /\ ruleset' = LoadFile(LoadFile(Cleared(ruleset), BaseFile), OverlayFile(o))
    /\ probe' = NoProbe
    /\ UNCHANGED << mainVars, cur, jobVars, cbVars, filterMode, clock >>

\* filter_message(text)
ProbeClassify ==
    /\ \E text \in AllTexts :
          probe' = [st |-> "set", text |-> text,
                    res |-> FilterMessage(text, ruleset, filterMode)]
    /\ UNCHANGED << mainVars, cur, jobVars, cbVars, dynFile, ruleset, filterMode,
                    clock >>

(* ------------------- the fixed-time loop on its own -------------------- *)
\* instants are ticks of the wall clock; a day has DayTicks of them and the
\* fire time (hour, minute, second 0) is the tick `at` of each day
DayTicks == 6
MaxLate  == 2
MaxDays  == 3

\* a next-fire computation that lets `now` itself be the next fire
TargetNotBefore(now, at) ==
    LET target == (now \div DayTicks) * DayTicks + at
    IN  IF now > target THEN target + DayTicks ELSE target

\* lines 194-197 and 234-237: now.replace(hour, minute, second=0,
\* microsecond=0), moved one day on `if now >= target`
Target(now, at) ==
    LET target == (now \div DayTicks) * DayTicks + at
    IN  IF now >= target THEN target + DayTicks ELSE target

\* lines 199 and 239: wait_seconds
WaitSeconds(now, target) == target - now

\* a _daily_report_loop or _trend_loop entered at any time of day 0
TimerInit ==
    /\ InitMonitor
    /\ probe = NoProbe
    /\ dynFile = "a"
    /\ ruleset = Reload(dynFile)
    /\ filterMode = "standard"
    /\ clock \in [pc : {"loop"}, at : 0..(DayTicks - 1), now : 0..(DayTicks - 1),
                  target : {-1}, wait : {-1}, last : {-1}]

\* lines 194-201 and 234-241: the next fire is computed and the sleep starts
TimerArm ==
    /\ clock.pc = "loop"
    /\ clock.now < MaxDays * DayTicks
    /\ LET target == Target(clock.now, clock.at)
       IN  clock' = [clock EXCEPT !.pc = "sleep", !.target = target,
                                  !.wait = WaitSeconds(clock.now, target)]
    /\ UNCHANGED << mainVars, cur, jobVars, cbVars, dynFile, ruleset, filterMode,
                    probe >>

\* the sleep ends, wait_seconds or a little more after it began
TimerWake ==
    /\ clock.pc = "sleep"
    /\ \E late \in 0..MaxLate :
          clock' = [clock EXCEPT !.pc = "body", !.now = clock.now + clock.wait + late,
                                 !.last = clock.target]
    /\ UNCHANGED << mainVars, cur, jobVars, cbVars, dynFile, ruleset, filterMode,
                    probe >>

\* lines 203-219 and 243-256: the body, and after an error the one-hour sleep,
\* take some time and the loop goes round
TimerBody ==
    /\ clock.pc = "body"
    /\ \E took \in 0..MaxLate :
          clock' = [clock EXCEPT !.pc = "loop", !.now = clock.now + took]
    /\ UNCHANGED << mainVars, cur, jobVars, cbVars, dynFile, ruleset, filterMode,
                    probe >>

(* --------------------------- specification ----------------------------- *)
Lifecycle ==
    \/ Start
    \/ Run
    \/ RunForeverExit
    \/ StopBegin
    \/ StopResume
    \/ SecondStop
    \/ \E j \in Jobs : TaskCancelled(j)

Callback ==
    \/ OnMessageClassify
    \/ OnMessageEnqueue
    \/ OnMessageReturn

BatchJob ==
    \/ BatchFire
    \/ AnalyzeBatch
    \/ BatchResume
    \/ BatchSave
    \/ BatchPush
    \/ BatchLoop

\* the whole program
Next ==
    \/ Lifecycle
    \/ OnMessageEnter(MaxServed)
    \/ Callback
    \/ BatchJob
    \/ DigestFire
    \/ DigestThread
    \/ DigestResume
    \/ DigestBackoffEnd
    \/ TrendThread
    \/ TrendResume
    \/ TrendLoadBase
    \/ TrendLoadOverlay
    \/ TrendBackoffEnd
    \/ TrendFire

Spec == Init /\ [][Next]_vars

\* the message path over a window in which neither daily timer (8:30, 6:00)
\* fires: the digest task stays in its sleep, the trend task runs its startup
\* update and then stays in its sleep
FlowNext ==
    \/ Lifecycle
    \/ OnMessageEnter(MaxMsgs)
    \/ Callback
    \/ BatchJob
    \/ TrendThread
    \/ TrendResume
    \/ TrendLoadBase
    \/ TrendLoadOverlay

FlowSpec == Init /\ [][FlowNext]_vars

\* the MessageFilter alone: reloads and classifications of arbitrary texts
FilterNext ==
    \/ ProbeReload
    \/ ProbeClassify

FilterSpec == FilterInit /\ [][FilterNext]_vars

\* one fixed-time loop alone (the digest at 8:30, the trend refresh at 6:00)
TimerNext ==
    \/ TimerArm
    \/ TimerWake
    \/ TimerBody

TimerSpec == TimerInit /\ [][TimerNext]_vars

(* ------------------------------- claims -------------------------------- *)
Increasing(q) == \A i, j \in 1..Len(q) : i < j => q[i] < q[j]

\* the callback in progress has queued its message
CallbackQueued == cbPc = "done" /\ cbLevel \notin {"none", "excluded"}

\* C1: the pending deque never holds more than its capacity; an offer to a full
\* deque returns normally, drops the oldest message and keeps the new one as the
\* newest, and a drained batch is never longer than the capacity.
QueueWithinCapacity ==
    /\ Len(queue) <= QueueMaxLen
    /\ Len(batchMsgs) <= QueueMaxLen
    /\ CallbackQueued =>
          /\ cbExit = "returned"
          /\ queue # <<>> /\ queue[Len(queue)] = delivered
          /\ queue = IF Len(cbPre.queue) = QueueMaxLen
                     THEN Append(Tail(cbPre.queue), delivered)
                     ELSE Append(cbPre.queue, delivered)

\* C1 witness: a message was offered to a full deque and the oldest one left
OverflowEvictsOldest ==
    /\ CallbackQueued
    /\ Len(cbPre.queue) = QueueMaxLen
    /\ queue = Append(Tail(cbPre.queue), delivered)

\* C2: messages leave the deque in the order they were delivered: a batch is
\* in delivery order, it holds only messages delivered after every message of
\* the earlier batches, and what is still queued was delivered after the batch.
DrainKeepsDeliveryOrder ==
    /\ Increasing(batchMsgs \o queue)
    /\ \A i \in 1..Len(batchMsgs \o queue) : (batchMsgs \o queue)[i] > drainedHigh

\* C2 witness: a second batch of two messages has been drained
SecondBatchOfTwo ==
    /\ taskPc["batch"] = "analyze"
    /\ Len(batchMsgs) >= 2
    /\ drainedHigh > 0

\* a step that drains the deque leaves nothing for a drain right after it
DrainStepEmpties ==
    (taskPc["batch"] = "sleep" /\ taskPc'["batch"] = "analyze") =>
        (queue' = <<>> /\ DrainAll(queue').batch = <<>>)

\* C3: a drain leaves the deque empty, so that a second drain with no offer in
\* between returns the empty sequence.
DrainLeavesQueueEmpty == [][DrainStepEmpties]_vars

\* C3 witness: a non-empty batch has just been drained
JustDrained ==
    /\ taskPc["batch"] = "analyze"
    /\ batchMsgs # <<>>
    /\ queue = <<>>

\* the returned items with impact_magnitude >= 4
AtLeastFour(items) == SelectSeq(items, LAMBDA m : m >= 4)

FailedAnalysisOnlyCounts ==
    (flush.st = "set" /\ ~flush.success) =>
        /\ flush.n >= 1
        /\ stats.analyzed = flush.pre.analyzed + flush.n
        /\ stats.valuable = flush.pre.valuable
        /\ stats.pushed = flush.pre.pushed
        /\ flush.saveCalls = 0
        /\ flush.pushCalls = 0

\* C5 witness: the analysis of a batch of two messages failed
FailedBatchOfTwo ==
    /\ flush.st = "set" /\ ~flush.success
    /\ flush.n = 2
    /\ stats.analyzed = flush.pre.analyzed + 2

\* C6: a daily report whose query returns no row sends nothing and marks nothing.
EmptyDigestIsNoOp ==
    (digestRun.st = "finished" /\ digestRun.result # "raised" /\ digestRun.items = 0) =>
        /\ digestRun.sends = 0
        /\ digestRun.marks = 0
        /\ digestRun.result = "false"

\* C6 witness: a daily report ran on a day without rows
EmptyDigestRan ==
    /\ digestRun.st = "finished"
    /\ digestRun.result = "false"
    /\ digestRun.items = 0

\* the callback in progress counted its message and then counted it once more,
\* as excluded (deque untouched) or as queued (message offered)
CountedOnce ==
    /\ stats.total = cbPre.stats.total + 1
    /\ \/ /\ stats.excluded = cbPre.stats.excluded + 1
          /\ stats.queued = cbPre.stats.queued
          /\ queue = cbPre.queue
       \/ /\ stats.queued = cbPre.stats.queued + 1
          /\ stats.excluded = cbPre.stats.excluded
          /\ queue = Offer(cbPre.queue, delivered)

\* C7 as claimed: every callback that ends without an internal error, whatever
\* its text, has counted its message in total and in one of excluded or queued.
EveryCallbackCounts ==
    (cbPc = "done" /\ ~cbErr) => CountedOnce

\* C7 amended: a callback for a message with text that ends without an internal
\* error has counted it in total and in exactly one of excluded or queued; a
\* callback for a message without text changes no counter and not the deque;
\* between callbacks total = excluded + queued + the messages errors dropped.
TextCallbackCounts ==
    /\ (cbPc = "done" /\ ~cbErr /\ ~cbEmpty) => CountedOnce
    /\ (cbPc = "done" /\ cbEmpty) => (stats = cbPre.stats /\ queue = cbPre.queue)
    /\ cbPc = "idle" => stats.total = stats.excluded + stats.queued + dropped
    /\ \A k \in {"analyzed", "valuable", "pushed"} :
          cbPc = "done" => stats[k] = cbPre.stats[k]

\* C7 witness: the second message with text was classified as excluded
SecondMessageExcluded ==
    /\ cbPc = "done" /\ ~cbErr /\ ~cbEmpty
    /\ cbLevel = "excluded"
    /\ stats.total = 2
    /\ stats.excluded = cbPre.stats.excluded + 1

\* C8: an error raised inside the callback does not leave it: the call returns,
\* and the deque, the orchestrator and the job tasks are as they were.
CallbackNeverRaises ==
    /\ cbPc = "done" => cbExit = "returned"
    /\ (cbPc = "done" /\ cbErr) =>
          /\ queue = cbPre.queue
          /\ running = cbPre.running
          /\ taskPc = cbPre.taskPc
          /\ mustCancel = cbPre.mustCancel
          /\ stats.total = cbPre.stats.total + 1
          /\ stats.queued = cbPre.stats.queued
          /\ stats.excluded = cbPre.stats.excluded

\* C8 witness: a callback raised while a message was queued
ErrorWithQueuedMessage ==
    /\ cbPc = "done" /\ cbErr
    /\ queue # <<>>
    /\ running

\* a step taken while a callback is between its first and its last step
NoJobStepInsideCallback ==
    cbPc \in {"counted", "classified", "done"} =>
        /\ taskPc' = taskPc
        /\ mustCancel' = mustCancel
        /\ mainPc' = mainPc
        /\ running' = running
        /\ batchMsgs' = batchMsgs
        /\ flush' = flush
        /\ ruleset' = ruleset
        /\ stats'.analyzed = stats.analyzed
        /\ stats'.valuable = stats.valuable
        /\ stats'.pushed = stats.pushed

\* C9: while a callback is between its first and its last step, no job task,
\* and no step of run/stop, moves: task positions, pending cancellations, the
\* batch in progress, the counters of the Batch Job and the keyword tables stay.
CallbackRunsUninterrupted == [][NoJobStepInsideCallback]_vars

\* C9 witness: a callback is half-way while the digest task and the trend task
\* have a finished worker call to resume from and the batch timer is armed
CallbackWhileJobsReady ==
    /\ cbPc = "classified"
    /\ taskPc["batch"] = "sleep"
    /\ taskPc["digest"] = "run" /\ digestRun.st = "finished"
    /\ taskPc["trend"] = "startup" /\ trendRun.st = "finished"

\* C10 as claimed: once the client has been told to disconnect in a shutdown,
\* all three job tasks have ended.
DisconnectAfterTasksEnd ==
    (disconnects > 0 /\ \E j \in Jobs : taskPc[j] # "none") =>
        \A j \in Jobs : taskPc[j] \in Terminal

\* the awaits inside the body of a job: the offloaded analysis, report and update
BodyPcs == {"analyze", "run", "startup", "update"}

\* a task that leaves an await of its body was not cancelled there
CancelSparesBody ==
    \A j \in Jobs :
        (taskPc[j] \in BodyPcs /\ taskPc'[j] # taskPc[j]) => ~mustCancel[j]

\* C11 as claimed: a job task cancelled while it is inside a flush, digest or
\* refresh body is not torn down there: it leaves the body only by running on.
BodyRunsToCompletion == [][CancelSparesBody]_vars

\* job j is inside a call of an external gateway
InGatewayCall(j) ==
    CASE j = "batch"  -> taskPc[j] \in {"analyze", "save", "push"}
      [] j = "digest" -> taskPc[j] = "run"
      [] j = "trend"  -> taskPc[j] \in {"startup", "update"}

\* C12 as claimed: while a job is inside a gateway call (analysis, save, push,
\* digest run, trend refresh) it does not hold the event loop.
GatewayCallLeavesLoopFree ==
    \A j \in Jobs : InGatewayCall(j) => cur # j

\* the startup update of _trend_loop and the reload after it are over
StartupReloadDone == taskPc["trend"] \in {"sleep", "update", "backoff", "done"}

\* C13 as claimed: a message is classified only after the startup refresh of
\* the trend task and the reload that follows it.
ClassifiedAfterStartupReload ==
    cbPc = "classified" => StartupReloadDone

\* C14 as claimed: reload() runs only after an update that succeeded, be it the
\* startup update or a scheduled one.
ReloadOnlyAfterSuccess ==
    taskPc["trend"] \in {"cleared", "base"} => trendRun.ok

\* the tables a finished reload can leave
FullRulesets == {Reload(o) : o \in Overlays}

\* C15: a classification reads tables that a reload has finished: when a
\* callback is about to classify, or has classified, the tables are those of a
\* whole load of the baseline and of one overlay, never cleared or half loaded.
ClassifySeesWholeRuleset ==
    cbPc \in {"counted", "classified"} => ruleset \in FullRulesets

\* C15 witness: a message was classified with the tables a reload installed
ClassifiedAfterReload ==
    /\ cbPc = "classified"
    /\ ruleset = Reload("b")
    /\ ruleset # Reload("a")
    /\ taskPc["trend"] = "sleep"

\* C16 as claimed: an error raised inside a job body, the startup run of the
\* trend task included, never ends the task of the job.
JobErrorEndsOnlyCycle ==
    \A j \in Jobs : taskPc[j] # "failed"

\* C17 as claimed: when start() has reported failure the monitor is not
\* running, no connection is left open and no job task exists.
RefusedStartLeavesNothing ==
    (cur = "main" /\ mainPc = "refused") =>
        /\ ~running
        /\ ~connected
        /\ \A j \in Jobs : taskPc[j] = "none"

\* a step taken when Monitor.stop has returned: the monitor is not running, and
\* the stop() that follows changes neither tasks, client nor counters
StoppedStopIsNoOp ==
    (cur = "none" /\ mainPc = "stopped") =>
        /\ ~running
        /\ mainPc' = "exit" =>
              UNCHANGED << running, clientRunning, connected, handlerOn, disconnects,
                           taskPc, mustCancel, stats, queue >>

\* C18: stop() on a stopped monitor is a no-op: the second stop() of the
\* shutdown path finds _running False and cancels no task, does not disconnect
\* the client again and leaves the counters.
SecondStopChangesNothing == [][StoppedStopIsNoOp]_vars

\* C18 witness: stop() was called a second time after a shutdown that
\* disconnected the client and ended the three tasks
StoppedTwiceAfterServing ==
    /\ cur = "none" /\ mainPc = "exit"
    /\ disconnects = 1
    /\ \A j \in Jobs : taskPc[j] \in Terminal

\* the keywords of a table
KeysOf(d) == {d[i].kw : i \in 1..Len(d)}

\* C19: a text that contains an exclude keyword is classified Excluded,
\* whatever high or medium keywords it contains and in either mode.
ExcludeKeywordWins ==
    (probe.st = "set" /\ probe.text.has \cap ruleset.exclude # {}) =>
        probe.res.level = "excluded"

\* C19 witness: in AI-only mode a long text with few links, an exclude keyword
\* and a high-tier keyword was classified Excluded
ExcludedDespiteHighKeyword ==
    /\ probe.st = "set"
    /\ filterMode = "ai_only"
    /\ probe.text.stripped >= MinLength /\ probe.text.urls <= MaxUrlCount
    /\ probe.text.has \cap ruleset.exclude # {}
    /\ probe.text.has \cap KeysOf(ruleset.high) # {}
    /\ probe.res.level = "excluded"

\* the text of the probe passes the length check, the link check and the
\* exclude check
ProbePassesChecks ==
    /\ probe.text.raw > 0 /\ probe.text.stripped >= MinLength
    /\ probe.text.urls <= MaxUrlCount
    /\ probe.text.has \cap ruleset.exclude = {}

\* C20: in keyword-tiering mode a text that passes the checks and contains a
\* high-tier and a medium-tier keyword is classified High.
HighBeatsMedium ==
    (/\ probe.st = "set"
     /\ filterMode = "standard"
     /\ ProbePassesChecks
     /\ probe.text.has \cap KeysOf(ruleset.high) # {}
     /\ probe.text.has \cap KeysOf(ruleset.medium) # {}) =>
        probe.res.level = "high"

\* C20 witness: a text with a keyword found only in the high table and another
\* found only in the medium table was classified High
HighAndMediumMatched ==
    /\ probe.st = "set"
    /\ filterMode = "standard"
    /\ ProbePassesChecks
    /\ (probe.text.has \cap KeysOf(ruleset.high)) \ KeysOf(ruleset.medium) # {}
    /\ (probe.text.has \cap KeysOf(ruleset.medium)) \ KeysOf(ruleset.high) # {}
    /\ probe.res.level = "high"

\* C21: in AI-only mode every text that passes the length, link and exclude
\* checks is classified Low with no matched keyword, whatever keywords of the
\* tables it contains, and a message of that level is queued by the callback.
AiOnlyGivesLow ==
    (probe.st = "set" /\ filterMode = "ai_only" /\ ProbePassesChecks) =>
        /\ probe.res.level = "low"
        /\ probe.res.matched = <<>>
        /\ Enqueue(NewStats, <<>>, probe.res.level, 1).queue = << 1 >>

\* C21 witness: in AI-only mode a text with a high-tier and a medium-tier
\* keyword was classified Low
AiOnlyLowDespiteKeywords ==
    /\ probe.st = "set" /\ filterMode = "ai_only" /\ ProbePassesChecks
    /\ probe.text.has \cap KeysOf(ruleset.high) # {}
    /\ probe.text.has \cap KeysOf(ruleset.medium) # {}
    /\ probe.res.level = "low"

\* the position of a keyword in a table
PosIn(d, kw) == CHOOSE i \in 1..Len(d) : d[i].kw = kw

\* C22: a High result lists every high-tier keyword the text contains, once
\* each and in the order of the table, and its category is that of the first
\* of them in the order of the table.
HighListsAllInTableOrder ==
    (probe.st = "set" /\ probe.res.level = "high") =>
        LET m  == probe.res.matched
            hi == ruleset.high
        IN  /\ {m[i] : i \in 1..Len(m)} = probe.text.has \cap KeysOf(hi)
            /\ Len(m) = Cardinality(probe.text.has \cap KeysOf(hi))
            /\ \A i, j \in 1..Len(m) : i < j => PosIn(hi, m[i]) < PosIn(hi, m[j])
            /\ \A k \in probe.text.has \cap KeysOf(hi) : PosIn(hi, m[1]) <= PosIn(hi, k)
            /\ probe.res.category = hi[PosIn(hi, m[1])].cat

\* C22 witness: two high-tier keywords of different categories matched
TwoHighCategoriesMatched ==
    /\ probe.st = "set" /\ probe.res.level = "high"
    /\ Len(probe.res.matched) >= 2
    /\ ruleset.high[PosIn(ruleset.high, probe.res.matched[1])].cat
          # ruleset.high[PosIn(ruleset.high, probe.res.matched[2])].cat
    /\ probe.res.category = ruleset.high[PosIn(ruleset.high, probe.res.matched[1])].cat

\* C23: a text whose trimmed length is below the minimum is classified
\* Excluded, whatever keywords it contains and in either mode.
ShortTextExcluded ==
    (probe.st = "set" /\ probe.text.stripped < MinLength) =>
        probe.res.level = "excluded"

\* C23 witness: a text one character short with a high-tier keyword in it
ShortTextWithHighKeyword ==
    /\ probe.st = "set"
    /\ probe.text.stripped = MinLength - 1
    /\ probe.text.has \cap KeysOf(ruleset.high) # {}
    /\ probe.text.has \cap ruleset.exclude = {}
    /\ probe.res.level = "excluded"

\* C24: a text with more links than the limit is classified Excluded whatever
\* keywords it contains; a text with exactly the limit that passes the length
\* check and has no exclude keyword is not Excluded.
TooManyLinksExcluded ==
    /\ (probe.st = "set" /\ probe.text.urls > MaxUrlCount) =>
          probe.res.level = "excluded"
    /\ (probe.st = "set" /\ probe.text.urls = MaxUrlCount /\ ProbePassesChecks) =>
          probe.res.level # "excluded"

\* C24 witness: a long text with one link too many and a high-tier keyword
OneLinkTooMany ==
    /\ probe.st = "set"
    /\ probe.text.urls = MaxUrlCount + 1
    /\ probe.text.stripped >= MinLength
    /\ probe.text.has \cap KeysOf(ruleset.high) # {}
    /\ probe.text.has \cap ruleset.exclude = {}
    /\ probe.res.level = "excluded"

\* a step leaves every counter at least as high; total, queued and excluded
\* move only in a step of the callback, analyzed, valuable and pushed only in a
\* step of _process_batch; steps of start/run/stop, of the digest task and of
\* the trend task leave the counters
StatsStep ==
    /\ \A k \in DOMAIN stats : stats'[k] >= stats[k]
    /\ (\E k \in {"total", "queued", "excluded"} : stats'[k] # stats[k]) =>
          cbPc' # cbPc
    /\ (\E k \in {"analyzed", "valuable", "pushed"} : stats'[k] # stats[k]) =>
          /\ taskPc["batch"] \in {"analyze", "push"}
          /\ taskPc'["batch"] # taskPc["batch"]
    /\ (\/ running' # running \/ connected' # connected
        \/ disconnects' # disconnects \/ mustCancel' # mustCancel
        \/ taskPc'["digest"] # taskPc["digest"] \/ digestRun' # digestRun
        \/ taskPc'["trend"] # taskPc["trend"] \/ trendRun' # trendRun) =>
          stats' = stats

\* C25: no counter of Stats ever decreases; only the callback writes total,
\* queued and excluded, only the Batch Job writes analyzed, valuable and pushed,
\* and the Digest Job, the Trend Job, start() and stop() write none.
StatsOnlyGrow == [][StatsStep]_vars

\* C25 witness: after a shutdown, a message was counted, queued, analysed,
\* found valuable and pushed
AllCountersMoved ==
    /\ stats.total = 1 /\ stats.queued = 1
    /\ stats.analyzed = 1 /\ stats.valuable >= 1 /\ stats.pushed = 1
    /\ ~running /\ disconnects = 1

\* the messages of a sequence
Elems(q) == {q[i] : i \in 1..Len(q)}

\* no message of the batch in progress is in the deque; a drain takes only
\* messages that no earlier batch held; when a failed batch is over, its
\* messages are in no later batch and not in the deque
AtMostOneBatchStep ==
    /\ Elems(batchMsgs) \cap Elems(queue) = {}
    /\ (taskPc["batch"] = "sleep" /\ taskPc'["batch"] = "analyze") =>
          /\ \A m \in Elems(batchMsgs') : m > drainedHigh
          /\ Elems(batchMsgs') \cap Elems(queue') = {}
    /\ (flush.st = "set" /\ ~flush.success /\ taskPc'["batch"] # taskPc["batch"]) =>
          /\ batchMsgs' = <<>>
          /\ \A m \in Elems(batchMsgs) : m <= drainedHigh' /\ m \notin Elems(queue')

\* C26: a queued message goes to the analysis in at most one batch: a batch
\* whose analysis failed is dropped, and the next batch holds only messages
\* queued after it was drained.
NoMessageInTwoBatches == [][AtMostOneBatchStep]_vars

\* C26 witness: the analysis of a batch failed while a newer message waits
FailedBatchWithNewerQueued ==
    /\ flush.st = "set" /\ ~flush.success
    /\ batchMsgs # <<>> /\ queue # <<>>
    /\ \A m \in Elems(queue) : \A b \in Elems(batchMsgs) : b < m

\* C27 as claimed: a daily report marks its items as reported only when it was
\* sent; when the send failed or was not made, nothing is marked.
MarkedOnlyAfterSend ==
    (digestRun.st = "finished" /\ digestRun.result # "true") =>
        digestRun.marks = 0

\* C28 as claimed: when save_batch failed, no push is made and pushed stays.
FailedSaveStopsCycle ==
    (flush.st = "set" /\ flush.saveCalls = 1 /\ ~flush.saveOk) =>
        /\ flush.pushCalls = 0
        /\ stats.pushed = flush.pre.pushed

\* C29 as claimed: when the model did not produce the synopsis, the daily
\* report sends nothing and marks nothing.
FailedSynopsisAbandonsDigest ==
    (digestRun.st = "finished" /\ ~digestRun.ai) =>
        /\ digestRun.sends = 0
        /\ digestRun.marks = 0

BodyRaised(j) ==
    /\ ~mustCancel[j]
    /\ CASE j = "batch"  -> taskPc[j] = "flushed" /\ flush.st = "raised"
         [] j = "digest" -> /\ taskPc[j] = "run"
                            /\ digestRun.st = "finished"
                            /\ digestRun.result = "raised"
         [] OTHER        -> /\ taskPc[j] = "update"
                            /\ trendRun.st = "finished"
                            /\ trendRun.raised

ErrorBackoffStep ==
    \A j \in Jobs :
        (BodyRaised(j) /\ taskPc'[j] # taskPc[j]) => taskPc'[j] = "backoff"

\* C31 as claimed: in each of the three jobs, a body that failed with an error
\* is followed by the one-hour wait before the next fire is computed.
SameBackoffInAllJobs == [][ErrorBackoffStep]_vars

\* C32: at every start of a sleep the target is an instant at the fire time,
\* strictly later than now, with no instant at the fire time between now and
\* it; the wait is above 0 and at most one day; and a target computed after a
\* fire lies on a later day than that fire, the next day when the loop came
\* round within a day.
NextFireIsEarliestLater ==
    (clock.pc = "sleep") =>
        /\ clock.target % DayTicks = clock.at
        /\ clock.target > clock.now
        /\ \A t \in (clock.now + 1)..(clock.target - 1) : t % DayTicks # clock.at
        /\ clock.wait = clock.target - clock.now
        /\ clock.wait > 0 /\ clock.wait <= DayTicks
        /\ (clock.last # -1) =>
              /\ clock.target \div DayTicks > clock.last \div DayTicks
              /\ (clock.now - clock.last < DayTicks) =>
                    clock.target = clock.last + DayTicks

\* C32 witness: the loop came round at the very instant of its fire and sleeps
\* a whole day
RearmedAtTheFireInstant ==
    /\ clock.pc = "sleep"
    /\ clock.last = clock.now
    /\ clock.wait = DayTicks
    /\ clock.target = clock.now + DayTicks

\* the keywords one file gives to one table
FileKeys(file, tier) ==
    UNION {Elems(file[tier][i].kws) : i \in 1..Len(file[tier])} \ {""}

AllFileKeys(file) ==
    FileKeys(file, "HIGH") \cup FileKeys(file, "MEDIUM") \cup (file.EXCLUDED \ {""})

\* the keywords that only overlays other than the current one hold
StaleKeys ==
    UNION {AllFileKeys(OverlayFile(o)) : o \in Overlays \ {dynFile}}
        \ (AllFileKeys(BaseFile) \cup AllFileKeys(OverlayFile(dynFile)))

ReloadEndStep ==
    (taskPc["trend"] = "base" /\ taskPc'["trend"] # "base") =>
        /\ KeysOf(ruleset'.high) =
              FileKeys(BaseFile, "HIGH") \cup FileKeys(OverlayFile(dynFile), "HIGH")
        /\ KeysOf(ruleset'.medium) =
              FileKeys(BaseFile, "MEDIUM") \cup FileKeys(OverlayFile(dynFile), "MEDIUM")
        /\ ruleset'.exclude = (BaseFile.EXCLUDED \cup OverlayFile(dynFile).EXCLUDED) \ {""}
        /\ \A text \in AllTexts :
              (/\ text.has # {} /\ text.has \subseteq StaleKeys
               /\ text.stripped >= MinLength /\ text.urls <= MaxUrlCount) =>
                  /\ FilterMessage(text, ruleset', "standard").matched = <<>>
                  /\ FilterMessage(text, ruleset', "standard").level = "low"

\* C33: when a reload ends, the tables hold the keywords of the baseline file
\* and of the overlay file as it now is, and nothing else: a text whose only
\* keywords come from an earlier overlay matches nothing.
ReloadDropsPreviousOverlay == [][ReloadEndStep]_vars

\* C33 witness: the refresh replaced overlay "a" by overlay "b" and the reload
\* is over: "governor", which only "a" held, is gone and "tariff" is there
PreviousOverlayKeywordGone ==
    /\ dynFile = "b"
    /\ taskPc["trend"] = "sleep"
    /\ trendRun.st = "idle"
    /\ StaleKeys = {"governor"}
    /\ "governor" \notin KeysOf(ruleset.high)
    /\ "tariff" \in KeysOf(ruleset.high)

FlushTailStep ==
    /\ (taskPc["batch"] = "save") => taskPc'["batch"] \in {"save", "push"}
    /\ (taskPc["batch"] = "push") => taskPc'["batch"] \in {"push", "flushed"}
    /\ (taskPc["batch"] \in {"save", "push"}) =>
          /\ cur = "batch"
          /\ mustCancel' = mustCancel
          /\ running' = running
          /\ mainPc' = mainPc
    /\ (taskPc["batch"] = "flushed" /\ flush.saveCalls = 1) =>
          /\ flush.pushCalls = 1
          /\ stats.analyzed = flush.pre.analyzed + flush.n
          /\ stats.valuable = flush.pre.valuable + Len(flush.saved)

InFlight == taskPc["batch"] \in {"analyze", "save", "push", "flushed"}

InFlightStep ==
    /\ InFlight =>
          /\ \/ batchMsgs' = batchMsgs
             \/ batchMsgs' = <<>> /\ taskPc'["batch"] \in {"sleep", "done"}
          /\ \/ queue' = queue
             \/ /\ cbPc = "classified"
                /\ delivered \in Elems(queue')
                /\ Elems(queue') \subseteq Elems(queue) \cup {delivered}
          /\ Elems(queue') \cap Elems(batchMsgs') = {}
    /\ (taskPc["batch"] = "sleep" /\ taskPc'["batch"] = "analyze") =>
          /\ batchMsgs' = queue
          /\ queue' = <<>>

\* C35: while a batch is with the analysis, the batch does not change and the
\* queue changes only by a callback adding its message (the oldest leaving a
\* full queue); the next drain takes the whole queue.
QueuedDuringFlushWaits == [][InFlightStep]_vars

\* C35 witness: the analysis of a batch is running and a message that came
\* after the drain is in the queue
QueuedWhileAnalysisRuns ==
    /\ taskPc["batch"] = "analyze" /\ analysis.st = "running"
    /\ batchMsgs # <<>> /\ queue # <<>>
    /\ \A m \in Elems(queue) : \A b \in Elems(batchMsgs) : b < m

\* the batch loop and everything that holds the event loop make progress:
\* a due timer fires, a worker thread ends, a coroutine that holds the loop
\* goes on
LiveFlowSpec ==
    /\ FlowSpec
    /\ WF_vars(BatchFire)
    /\ WF_vars(AnalyzeBatch)
    /\ WF_vars(BatchResume)
    /\ WF_vars(BatchSave)
    /\ WF_vars(BatchPush)
    /\ WF_vars(BatchLoop)
    /\ WF_vars(Callback)
    /\ WF_vars(TrendLoadBase \/ TrendLoadOverlay)

\* C36: while the orchestrator is running, a queued message is in the end
\* handed to the analysis in a batch, unless overflow put it out of the queue.
QueuedIsEventuallySubmitted ==
    \A m \in 1..MaxMsgs :
        (running /\ m \in Elems(queue)) ~>
            \/ m \in Elems(batchMsgs)
            \/ m \notin Elems(queue) /\ m \notin Elems(batchMsgs)
            \/ ~running

\* C36 witness: after an earlier cycle, a later fire drained one more message
\* and handed it to the analysis
DrainedByLaterFire ==
    /\ running
    /\ taskPc["batch"] = "analyze" /\ analysis.st = "running"
    /\ Len(batchMsgs) = 1 /\ batchMsgs[1] > 1
    /\ queue = <<>>

\* stop() and what it waits for make progress.  The event loop runs its ready
\* callbacks first in, first out: the coroutine of stop() and a task that has
\* CancelledError to receive are ready, and get the loop however often other
\* coroutines take it in between (strong fairness).  A coroutine that holds
\* the loop goes on.  No timer has to fire and no worker thread has to end.
LiveStopSpec ==
    /\ Spec
    /\ SF_vars(StopBegin)
    /\ SF_vars(StopResume)
    /\ \A j \in Jobs : SF_vars(TaskCancelled(j))
    /\ WF_vars(Callback)
    /\ WF_vars(BatchSave \/ BatchPush \/ BatchLoop)
    /\ WF_vars(TrendLoadBase \/ TrendLoadOverlay)

\* C37: a stop() that is due while the orchestrator is running comes to its
\* end: the three tasks have ended, the orchestrator is stopped and the client
\* is disconnected.
StopCompletes ==
    (running /\ mainPc = "stopping") ~>
        /\ mainPc = "stopped"
        /\ ~running /\ ~connected /\ ~clientRunning
        /\ \A j \in Jobs : taskPc[j] \in Terminal

\* C37 witness: stop() is over; it cancelled the digest in its one-hour sleep
\* and the batch while its analysis was running
StoppedFromBackoffAndGateway ==
    /\ mainPc = "stopped" /\ ~running /\ ~connected
    /\ taskPc["digest"] = "cancelled"
    /\ taskPc["batch"] = "done" /\ analysis.st # "idle"
    /\ \A j \in Jobs : taskPc[j] \in Terminal

====
